---- MODULE Spec2Model ----
(***************************************************************************)
(* Model of the browser interaction and observation engine of pywebagent:  *)
(* the bounded task loop (agent_common.act, StatefulAgent.act), the step   *)
(* of BrowserEnv (script execution, navigation/tab handling, observation   *)
(* synthesis, element marking) and the primitives of Actions.              *)
(***************************************************************************)
EXTENDS Integers, Sequences, FiniteSets, TLC

(* ---------------------------- bounds ----------------------------------- *)
MaxBudget == 2          \* largest max_actions an act() is called with
MaxActs == 2            \* act() invocations on one agent
MaxAgents == 2          \* agents (engine instances) constructed in the process
MaxSteps == 2           \* step() calls in the process, over all agents and acts
MaxScriptLen == 2       \* primitive calls in one oracle script
MaxFrames == 1          \* frames of a page the loop works on
MaxElems == 1           \* markable elements in one frame of such a page
MarkMaxFrames == 3      \* frames of a page handed to a marking pass on its own
MarkMaxElems == 2       \* markable elements in one frame of such a page
MaxNewTabs == 2         \* tabs one primitive call can open
MaxPages == 3           \* tabs opened in one browser context, in total
MaxOutcomes == 2        \* low-level attempts of one call whose outcome the browser chooses
MaxLog == 2             \* entries of log_history
MaxExtractors == 2      \* extra_observation_sources of an engine
MaxCodeLen == 4         \* characters of a script executed on its own
MaxTextLen == 2         \* characters of a text typed into an element, and of its content before

(* ---------------------------- values ----------------------------------- *)
IN_PROGRESS == "IN_PROGRESS"
SUCCESS == "SUCCESS"
FAILED == "FAILED"

EmptyOutput == "{}"
Outputs == {EmptyOutput, "{result:ok}"}
LogMessages == {"", "clicking"}

\* Exceptions are records: the Python type and the lines of str(e), each line
\* abstracted to the marker the code looks for in it.
NoExc == [type |-> "None", lines |-> <<>>]
UnstableExc == [type |-> "TimeoutError", lines |-> <<"text", "element is not stable - waiting...", "==============">>]
ContextDestroyedExc == [type |-> "Error", lines |-> <<"Execution context was destroyed">>]
OtherExc == [type |-> "Error", lines |-> <<"text">>]
OneLineTimeoutExc == [type |-> "TimeoutError", lines |-> <<"text">>]
LowLevelExcs == {UnstableExc, ContextDestroyedExc, OtherExc, OneLineTimeoutExc}

NotMarkedExc == [type |-> "Exception", lines |-> <<"is not marked in the webpage.">>]
FileChooserExc == [type |-> "Exception", lines |-> <<"Consider using upload_files() instead of click()">>]
IndexErrorExc == [type |-> "IndexError", lines |-> <<"list index out of range">>]
AssertionExc == [type |-> "AssertionError", lines |-> <<"Unexpected exception raised">>]
ScriptExc == [type |-> "NameError", lines |-> <<"name is not defined">>]
WebpageEmptyException == [type |-> "WebpageEmptyException", lines |-> <<"Screenshot is empty!">>]
UnboundLocalExc == [type |-> "UnboundLocalError", lines |-> <<"i referenced before assignment">>]

\* What the browser does on one low-level click attempt: the result of the
\* element call and the fate of the file chooser watch around it.
LowOutcomes == [low : {NoExc} \cup LowLevelExcs, watch : {"timeout", "opened", "error"}]
DefaultOutcome == [low |-> NoExc, watch |-> "timeout"]

\* The outcomes followed through the task loop: a click that works, one that
\* opens a file chooser (reaching the element or not), one on an unstable
\* element.
LoopOutcomes == {DefaultOutcome, [low |-> NoExc, watch |-> "opened"], [low |-> UnstableExc, watch |-> "opened"], [low |-> UnstableExc, watch |-> "timeout"]}

\* The outcomes, of the universe u, the browser can produce on the n-th
\* low-level attempt of one primitive call; past MaxOutcomes attempts the
\* element call just succeeds.
OutcomesAt(u, n) == IF n <= MaxOutcomes THEN u ELSE {DefaultOutcome}

(* ------------------------- EnvState, finish ---------------------------- *)
\* log_history is not a field here: the class default list is one object
\* shared by every EnvState, and no code rebinds it (see variable log_history).
NewEnvState == [has_successfully_completed |-> FALSE, has_failed |-> FALSE, output |-> EmptyOutput, timeframe |-> 0]

\* finish that raises the flag of the outcome without clearing the other one
finish_without_clearing(es, did_succeed, output) == [es EXCEPT !.has_successfully_completed = @ \/ did_succeed, !.has_failed = @ \/ ~did_succeed, !.output = output]

\* finish that keeps the output only of a successful task
finish_output_on_success(es, did_succeed, output) == [es EXCEPT !.has_successfully_completed = did_succeed, !.has_failed = ~did_succeed, !.output = IF did_succeed THEN output ELSE @]

finish(es, did_succeed, output) == [es EXCEPT !.has_successfully_completed = did_succeed, !.has_failed = ~did_succeed, !.output = output]

get_task_status(es) == IF es.has_successfully_completed THEN SUCCESS ELSE IF es.has_failed THEN FAILED ELSE IN_PROGRESS

(* ---------------------------- click ------------------------------------ *)
Contains(e, marker) == \E k \in DOMAIN e.lines : e.lines[k] = marker

\* the marker looked for in timeouts only
context_destroyed_timeouts_only(e) == e.type = "TimeoutError" /\ Contains(e, "Execution context was destroyed")

is_context_destroyed_exception(e) == Contains(e, "Execution context was destroyed")

\* e_lines[-2] on a one-line message raises IndexError; the isinstance test
\* comes first and short-circuits.
unstable_check_raises(e) == e.type = "TimeoutError" /\ Len(e.lines) < 2

is_unstable_element_exception(e) == /\ e.type = "TimeoutError"
                                    /\ Len(e.lines) >= 2
                                    /\ e.lines[Len(e.lines) - 1] = "element is not stable - waiting..."
                                    /\ e.lines[Len(e.lines)] = "=============="

\* _visualized_interact(item_id, "click", ...): the element-not-marked test
\* precedes every interaction with the page.
visualized_interact(marked_elements, item_id, low) == IF item_id \notin DOMAIN marked_elements THEN [raised |-> NotMarkedExc, attempted |-> FALSE] ELSE [raised |-> low, attempted |-> TRUE]

\* the retry condition without the test of force
may_retry_any_force(inner_exception, force) == is_unstable_element_exception(inner_exception)

\* click retries, forced, after an unstable-element failure of an unforced attempt
may_retry(inner_exception, force) == is_unstable_element_exception(inner_exception) /\ ~force

\* the file chooser error giving way to the failure of the click itself
inner_exception_first(inner_exception) == IF inner_exception # NoExc THEN inner_exception ELSE FileChooserExc

\* what click raises once the watch has seen a file chooser open
unexpected_file_chooser(inner_exception) == FileChooserExc

\* trace: the log appends and the interactions with the page, in the order they happened
ClickResult(ret, logs, attempts, retries, reloads, chooser, first, trace) == [ret |-> ret, logs |-> logs, attempts |-> attempts, retries |-> retries, reloads |-> reloads, chooser |-> chooser, first |-> first, trace |-> trace]

\* Actions.click(item_id, log_message, force): the set of ways the call can
\* end, one for every behaviour of the browser; n counts the low-level
\* attempts of the logical call, u is the universe of browser outcomes.
RECURSIVE click(_, _, _, _, _, _)
click(marked_elements, item_id, log_message, force, u, n) ==
    LET logs == IF log_message # "" THEN <<log_message>> ELSE <<>>
        click_on(o) ==
            LET vi == visualized_interact(marked_elements, item_id, o.low)
                att == IF vi.attempted THEN 1 ELSE 0
                watch == o.watch
                inner_exception_raised == vi.raised # NoExc
                inner_exception == vi.raised
                first == [low |-> vi.raised, watch |-> watch]
                trace == (IF log_message # "" THEN <<"log">> ELSE <<>>) \o (IF vi.attempted THEN <<"interact">> ELSE <<>>)
            IN  IF watch = "opened" THEN {ClickResult(unexpected_file_chooser(inner_exception), logs, att, 0, 0, TRUE, first, trace)}
                ELSE IF watch = "error" THEN {ClickResult(AssertionExc, logs, att, 0, 0, FALSE, first, trace)}
                ELSE IF ~inner_exception_raised THEN {ClickResult(NoExc, logs, att, 0, 0, FALSE, first, trace)}
                ELSE IF unstable_check_raises(inner_exception) THEN {ClickResult(IndexErrorExc, logs, att, 0, 0, FALSE, first, trace)}
                ELSE IF may_retry(inner_exception, force)
                     THEN {ClickResult(r.ret, logs \o r.logs, att + r.attempts, 1 + r.retries, r.reloads, r.chooser, first, trace \o r.trace) : r \in click(marked_elements, item_id, "", TRUE, u, n + 1)}
                ELSE IF is_context_destroyed_exception(inner_exception) THEN {ClickResult(NoExc, logs, att, 0, 1, FALSE, first, trace \o <<"reload">>)}
                ELSE {ClickResult(inner_exception, logs, att, 0, 0, FALSE, first, trace)}
        \* nothing is clicked when the id is not marked: no chooser opens and
        \* the watch runs into its timeout
        outcomes == IF item_id \in DOMAIN marked_elements THEN OutcomesAt(u, n) ELSE {DefaultOutcome}
    IN  UNION {click_on(o) : o \in outcomes}

(* ----------------------- the other primitives ------------------------- *)
KeyErrorExc == [type |-> "KeyError", lines |-> <<"item_id">>]
DirectionExc == [type |-> "Exception", lines |-> <<"direction must be either 'up' or 'down'">>]
ChooserTimeoutExc == [type |-> "TimeoutError", lines |-> <<"Timeout 2000ms exceeded while waiting for event filechooser">>]

\* What a call of the page or of an element can end with.
Lows == {NoExc} \cup LowLevelExcs

\* How a primitive call ended: what it raised, what it appended to
\* log_history, and its log appends and page interactions in order.
PrimResult(ret, logs, trace) == [ret |-> ret, logs |-> logs, trace |-> trace]

interact_events(vi) == IF vi.attempted THEN <<"interact">> ELSE <<>>

\* Actions.scroll(direction, log_message)
scroll(direction, log_message, low) ==
    IF direction \notin {"up", "down"} THEN PrimResult(DirectionExc, <<log_message>>, <<"log">>)
    ELSE PrimResult(low, <<log_message>>, <<"log", "interact">>)

\* Actions.combobox_select(item_id, option, log_message)
combobox_select(marked_elements, item_id, log_message, low1, low2) ==
    LET select == visualized_interact(marked_elements, item_id, low1)
        forced_click == visualized_interact(marked_elements, item_id, low2)
    IN  IF select.raised = NoExc THEN PrimResult(NoExc, <<log_message>>, <<"log">> \o interact_events(select))
        ELSE PrimResult(forced_click.raised, <<log_message>>, <<"log">> \o interact_events(select) \o interact_events(forced_click))

\* Actions.input_text(item_id, text, clear_before_input, log_message)
input_text(marked_elements, item_id, log_message, low) ==
    LET vi == visualized_interact(marked_elements, item_id, low)
    IN  PrimResult(vi.raised, <<log_message>>, <<"log">> \o interact_events(vi))

\* str.lower() on the tag names met
lower(tag) == IF tag = "DIV" THEN "div" ELSE IF tag = "INPUT" THEN "input" ELSE tag

\* the element function input_text asks for
input_func(clear_before_input) == IF clear_before_input THEN "fill" ELSE "type"

\* if func == "fill" and element_info["tag"].lower() == "div": func = "type"
element_func(func, tag) == IF func = "fill" /\ lower(tag) = "div" THEN "type" ELSE func

\* element.fill(text) sets the content of the element to text;
\* element.type(text) sends the characters of text to it as key presses.
element_call(func, content, text) == IF func = "fill" THEN text ELSE content \o text

\* How an upload_files call ended: as PrimResult, with the click attempts
\* that reached the element (forced or not, and what each raised) and
\* whether the file chooser opened within the wait of the call.
UploadResult(ret, logs, trace, clicks, watch) == [ret |-> ret, logs |-> logs, trace |-> trace, clicks |-> clicks, watch |-> watch]

click_attempts(vi, force) == IF vi.attempted THEN <<[force |-> force, raised |-> vi.raised]>> ELSE <<>>

\* Actions.upload_files(item_id, files, log_message)
upload_files(marked_elements, item_id, log_message, low1, low2, watch) ==
    LET click1 == visualized_interact(marked_elements, item_id, low1)
        click2 == visualized_interact(marked_elements, item_id, low2)
        logs == <<log_message>>
        once == click_attempts(click1, FALSE)
        twice == once \o click_attempts(click2, TRUE)
        clicked(trace, clicks) == IF watch = "opened" THEN UploadResult(NoExc, logs, trace \o <<"set_files">>, clicks, watch) ELSE UploadResult(ChooserTimeoutExc, logs, trace, clicks, watch)
    IN  IF click1.raised = NoExc THEN clicked(<<"log">> \o interact_events(click1), once)
        ELSE IF unstable_check_raises(click1.raised) THEN UploadResult(IndexErrorExc, logs, <<"log">> \o interact_events(click1), once, watch)
        ELSE IF is_unstable_element_exception(click1.raised)
             THEN IF click2.raised = NoExc THEN clicked(<<"log">> \o interact_events(click1) \o interact_events(click2), twice)
                  ELSE UploadResult(click2.raised, logs, <<"log">> \o interact_events(click1) \o interact_events(click2), twice, watch)
        ELSE UploadResult(click1.raised, logs, <<"log">> \o interact_events(click1), once, watch)

\* ActionsOverride.click(item_id, log_message, force); form_button says that
\* the element is a button of class druids_form_action...
override_click(marked_elements, item_id, log_message, force, form_button, low, u) ==
    IF item_id \notin DOMAIN marked_elements THEN {PrimResult(KeyErrorExc, <<>>, <<>>)}
    ELSE IF form_button THEN {PrimResult(low, <<>>, <<"interact">>)}
    ELSE {PrimResult(r.ret, r.logs, r.trace) : r \in click(marked_elements, item_id, log_message, force, u, 1)}

(* -------------------------- element marking ---------------------------- *)
\* A frame as the marking pass sees it: how many elements its script marks,
\* and whether evaluating the script in it fails.
FrameSeqsOf(max_frames, max_elems) == UNION {[1..k -> [n : 0..max_elems, fails : BOOLEAN]] : k \in 1..max_frames}

\* The marking script of one frame: numbers its elements consecutively from
\* the counter value substituted into it.
mark_borders_js(frame, counter, f) == [k \in 1..frame.n |-> [id |-> counter + k - 1, iframe |-> f]]

run_script_in_frame(frames, f, counter) == IF frames[f].fails THEN <<>> ELSE mark_borders_js(frames[f], counter, f)

\* the counter left where it was after a frame
next_counter_stuck(counter, marked_elements_iframe) == counter

\* counter += len(marked_elements_iframe)
next_counter(counter, marked_elements_iframe) == counter + Len(marked_elements_iframe)

\* the for loop of _mark_elements over page.frames
RECURSIVE mark_loop(_, _, _, _)
mark_loop(frames, f, counter, acc) ==
    IF f > Len(frames) THEN acc
    ELSE LET marked_elements_iframe == run_script_in_frame(frames, f, counter)
         IN  mark_loop(frames, f + 1, next_counter(counter, marked_elements_iframe), acc \o marked_elements_iframe)

\* {element["id"]: element for element in marked_elements}: a later element
\* with the same id replaces an earlier one.
to_dict(list) == [id \in {list[k].id : k \in DOMAIN list} |-> list[CHOOSE k \in DOMAIN list : list[k].id = id /\ \A j \in DOMAIN list : list[j].id = id => j <= k]]

mark_elements(frames) == LET list == mark_loop(frames, 1, 0, <<>>) IN [list |-> list, dict |-> to_dict(list)]

\* The maps a marking pass can give on a page the loop works on.
Markings == {mark_elements(frames).dict : frames \in FrameSeqsOf(MaxFrames, MaxElems)}

(* --------------------------- scripts ----------------------------------- *)
\* An oracle script is a number of lines; what a line does (the primitive it
\* calls and with which arguments, or that it raises on its own) is chosen
\* when the line runs, so every script of that length is covered.
ItemIds == 0..1
ScriptLens == 1..MaxScriptLen

NoArgs == [item_id |-> 0, log_message |-> "", force |-> FALSE]
NoCall == [ret |-> NoExc, logs |-> <<>>, attempts |-> 0, retries |-> 0, reloads |-> 0, chooser |-> FALSE, first |-> DefaultOutcome, trace |-> <<>>]
NoStep == [opened |-> 0, finish_called |-> FALSE, raised |-> NoExc, chooser |-> FALSE, status_before |-> IN_PROGRESS]
NoMessage == [set |-> FALSE, error |-> <<>>]
NoObservation == [page |-> 0, error_message |-> NoMessage, marked_elements |-> <<>>]
NoResult == [status |-> "none", output |-> EmptyOutput]
NoFinish == [did_succeed |-> FALSE, output |-> EmptyOutput]
NoMark == [list |-> <<>>, dict |-> <<>>]
NoObsCall == [blank |-> FALSE, extras |-> 0, events |-> <<>>]
NoScriptRun == [code |-> <<>>, failure |-> [kind |-> "none", lineno |-> 0, inner |-> FALSE], message |-> <<>>]
NoUrl == [path |-> "", query |-> ""]
NoNav == [before |-> NoUrl, after |-> NoUrl, waited |-> FALSE]
NoElement == [tag |-> "", content |-> <<>>]
NoOverlays == [present |-> <<>>, tried |-> <<>>, cleared |-> <<>>, stale |-> <<>>, exit |-> "none"]

(* ----------------------------- state ----------------------------------- *)
VARIABLES
    pc,             \* position of the driver: "init", "idle", "loop", "exec", "post", "returned", "raised"
    kind,           \* "module" (agent_common.act) or "stateful" (StatefulAgent)
    agents,         \* engine instances constructed so far
    acts,           \* act() invocations on the current agent
    max_actions,    \* step budget of the running act()
    i,              \* iterations of the loop completed in the running act()
    env_state,      \* BrowserEnv.env_state
    log_history,    \* the list object behind EnvState.log_history
    observation,    \* the observation the driver holds
    script,         \* number of lines of the code being executed by step()
    ip,             \* line of the script to execute next
    error_message,  \* local error_message of step()
    pages,          \* context.pages, oldest first
    page,           \* BrowserEnv.page, the tracked tab
    page_seq,       \* tabs opened in the context so far
    result,         \* what act() returned
    exc,            \* the exception that ended act() or the constructor
    oracle_calls,   \* calculate_next_action calls of the running act()
    steps,          \* step() calls of the running act()
    total_steps,    \* step() calls in the process
    finish_in_act,  \* a script of the running act() called finish
    finish_ever,    \* a script called finish on the current EnvState
    last_finish,    \* arguments of the latest finish call
    step_info,      \* what the script of the running step did so far
    call_args,      \* arguments of a click called on its own
    last_call,      \* what that click did
    page_frames,    \* frames of the page handed to a marking pass on its own
    last_mark,      \* element list and map of that marking pass
    returned_steps, \* step() calls that returned an observation since reset()
    obs_call,       \* a get_observation() call followed statement by statement
    script_run,     \* a script executed on its own, and the message step() built
    current_url,    \* BrowserEnv.current_url
    page_url,       \* page.url of every open tab
    nav_info,       \* what the navigation check of the latest step saw and did
    element,        \* tag and content of the element a call on its own addresses
    overlays        \* marking overlays in the frames of the tracked page, and the latest removal pass

vars == <<pc, kind, agents, acts, max_actions, i, env_state, log_history, observation, script, ip, error_message, pages, page, page_seq, result, exc, oracle_calls, steps, total_steps, finish_in_act, finish_ever, last_finish, step_info, call_args, last_call, page_frames, last_mark, returned_steps, obs_call, script_run, current_url, page_url, nav_info, element, overlays>>

browser_vars == <<pages, page, page_seq>>
act_vars == <<kind, agents, acts, max_actions, i>>
unit_vars == <<call_args, last_call, page_frames, last_mark>>
part_vars == <<obs_call, script_run, current_url, page_url, nav_info, element, overlays>>
loop_vars == <<pc, kind, agents, acts, max_actions, i, env_state, script, ip, error_message, pages, page, page_seq, result, exc, oracle_calls, steps, finish_in_act, finish_ever, last_finish, step_info>>

\* Nothing constructed yet.
Blank ==
    /\ pc = "init" /\ kind = "none" /\ agents = 0 /\ acts = 0 /\ max_actions = 0 /\ i = 0
    /\ env_state = NewEnvState /\ log_history = <<>>
    /\ observation = NoObservation /\ script = 0 /\ ip = 0 /\ error_message = NoMessage
    /\ pages = <<>> /\ page = 0 /\ page_seq = 0
    /\ result = NoResult /\ exc = [e |-> NoExc, in |-> "none"]
    /\ oracle_calls = 0 /\ steps = 0 /\ total_steps = 0 /\ finish_in_act = FALSE /\ finish_ever = FALSE
    /\ last_finish = NoFinish
    /\ step_info = NoStep
    /\ returned_steps = 0

\* The parts of the engine exercised on their own, idle.
PartsAtRest == obs_call = NoObsCall /\ script_run = NoScriptRun /\ current_url = NoUrl /\ page_url = <<>> /\ nav_info = NoNav /\ element = NoElement /\ overlays = NoOverlays

Init == Blank /\ call_args = NoArgs /\ last_call = NoCall /\ page_frames = <<>> /\ last_mark = NoMark /\ PartsAtRest

(* ----------------------- observation synthesis ------------------------- *)
\* get_observation on tab p, the marking pass giving the map m: mark, take
\* the screenshot, fail when it is blank.
get_observation(p, m, blank) ==
    [raised |-> IF blank THEN WebpageEmptyException ELSE NoExc,
     obs |-> [page |-> p, error_message |-> NoMessage, marked_elements |-> m]]

(* ------------------------- construction, reset ------------------------- *)
\* BrowserEnv() and reset(url): a new context with one tab, a new EnvState
\* (whose log_history is the shared class default), the first observation.
reset(next_pc, k) ==
    \E m \in Markings, blank \in BOOLEAN :
        LET o == get_observation(1, m, blank)
        IN  /\ agents < MaxAgents
            /\ agents' = agents + 1
            /\ kind' = k
            /\ acts' = 0
            /\ pages' = <<1>> /\ page' = 1 /\ page_seq' = 1
            /\ env_state' = NewEnvState
            /\ script' = 0 /\ ip' = 0 /\ error_message' = NoMessage
            /\ result' = NoResult
            /\ oracle_calls' = 0 /\ steps' = 0 /\ finish_in_act' = FALSE /\ finish_ever' = FALSE
            /\ step_info' = NoStep
            /\ last_finish' = NoFinish
            /\ i' = 0
            /\ returned_steps' = 0
            /\ IF o.raised # NoExc
               THEN /\ pc' = "raised" /\ exc' = [e |-> o.raised, in |-> "reset"]
                    /\ observation' = NoObservation
               ELSE /\ pc' = next_pc /\ exc' = [e |-> NoExc, in |-> "none"]
                    /\ observation' = o.obs
            /\ UNCHANGED <<log_history, total_steps, unit_vars, part_vars>>

Budgets == 0..MaxBudget

\* agent_common.act(url, task, max_actions): constructs the engine, resets
\* it and enters the loop.
ModuleAct ==
    /\ pc \in {"init", "returned", "raised"}
    /\ \E n \in Budgets : max_actions' = n
    /\ reset("loop", "module")

\* StatefulAgent(...): constructs the engine and resets it.
StatefulInit ==
    /\ pc \in {"init", "returned", "raised"}
    /\ max_actions' = 0
    /\ reset("idle", "stateful")

\* StatefulAgent.act(task, max_actions): enters the loop on the observation
\* and the EnvState the agent already holds.
StatefulAct ==
    /\ kind = "stateful" /\ pc \in {"idle", "returned"}
    /\ acts < MaxActs
    /\ acts' = acts + 1
    /\ \E n \in Budgets : max_actions' = n
    /\ i' = 0 /\ pc' = "loop"
    /\ result' = NoResult
    /\ oracle_calls' = 0 /\ steps' = 0 /\ finish_in_act' = FALSE
    /\ UNCHANGED <<kind, agents, env_state, log_history, observation, script, ip, error_message, browser_vars, exc, total_steps, finish_ever, last_finish, step_info, returned_steps, unit_vars, part_vars>>

(* ------------------------------ the loop ------------------------------- *)
\* One iteration begins: calculate_next_action yields a script and step()
\* starts executing it (error_message = None, actions bound to the marked
\* elements of the observation the driver holds).
OracleCall ==
    /\ pc = "loop" /\ i < max_actions
    /\ total_steps < MaxSteps
    /\ total_steps' = total_steps + 1
    /\ \E code \in ScriptLens : script' = code
    /\ ip' = 1 /\ error_message' = NoMessage
    /\ pc' = "exec"
    /\ oracle_calls' = oracle_calls + 1
    /\ steps' = steps + 1
    /\ step_info' = [NoStep EXCEPT !.status_before = get_task_status(env_state)]
    /\ UNCHANGED <<act_vars, env_state, log_history, observation, browser_vars, result, exc, finish_in_act, finish_ever, last_finish, returned_steps, unit_vars, part_vars>>

\* The script line that has just run without raising: on to the next line,
\* or out of exec().
Advance == IF ip = script THEN pc' = "post" /\ ip' = 0 /\ script' = 0 ELSE pc' = "exec" /\ ip' = ip + 1 /\ script' = script

\* f'Error in execution of script. At line: "...". Error: "{e}"'
Message(e) == [set |-> TRUE, error |-> e.lines]

\* The script line that has just raised e: the except clause of step().
Raise(e) == /\ pc' = "post" /\ ip' = 0 /\ script' = 0
            /\ error_message' = Message(e)

\* actions.finish(did_succeed, output, reason)
ExecFinish ==
    /\ pc = "exec"
    /\ \E did_succeed \in BOOLEAN, output \in Outputs :
        /\ env_state' = finish(env_state, did_succeed, output)
        /\ last_finish' = [did_succeed |-> did_succeed, output |-> output]
    /\ Advance
    /\ finish_in_act' = TRUE /\ finish_ever' = TRUE
    /\ step_info' = [step_info EXCEPT !.finish_called = TRUE]
    /\ UNCHANGED <<act_vars, log_history, observation, error_message, browser_vars, result, exc, oracle_calls, steps, total_steps, returned_steps, unit_vars, part_vars>>

\* Tabs the page opens in reaction to a call that reached an element.
NewTabs(k) == [j \in 1..k |-> page_seq + j]

\* actions.click(item_id, log_message, force)
ExecClick ==
    /\ pc = "exec"
    /\ \E item_id \in ItemIds, log_message \in LogMessages, force \in BOOLEAN, k \in 0..MaxNewTabs :
        \E r \in click(observation.marked_elements, item_id, log_message, force, LoopOutcomes, 1) :
            LET opened == IF r.attempts > 0 THEN k ELSE 0
            IN  /\ page_seq + opened <= MaxPages
                /\ Len(log_history) + Len(r.logs) <= MaxLog
                /\ log_history' = log_history \o r.logs
                /\ pages' = pages \o NewTabs(opened)
                /\ page_seq' = page_seq + opened
                /\ IF r.ret = NoExc THEN Advance /\ error_message' = error_message ELSE Raise(r.ret)
                /\ step_info' = [step_info EXCEPT !.opened = @ + opened, !.raised = r.ret, !.chooser = @ \/ r.chooser]
    /\ UNCHANGED <<act_vars, env_state, observation, page, result, exc, oracle_calls, steps, total_steps, finish_in_act, finish_ever, last_finish, returned_steps, unit_vars, part_vars>>

\* A script line that raises by itself (an undefined name, a bad argument).
ExecRaise ==
    /\ pc = "exec"
    /\ Raise(ScriptExc)
    /\ step_info' = [step_info EXCEPT !.raised = ScriptExc]
    /\ UNCHANGED <<act_vars, env_state, log_history, observation, browser_vars, result, exc, oracle_calls, steps, total_steps, finish_in_act, finish_ever, last_finish, returned_steps, unit_vars, part_vars>>

(* --------------------------- end of a step ----------------------------- *)
Last(seq) == seq[Len(seq)]
Range(seq) == {seq[k] : k \in DOMAIN seq}

\* context.pages once tab p is closed
close_page(pgs, p) == SelectSeq(pgs, LAMBDA x : x # p)

\* the error message attached before the switch to the new tab
error_on_first_observation(obs1, obs2, switched, msg) == IF switched THEN obs2 ELSE [obs1 EXCEPT !.error_message = msg]

\* obs.error_message = error_message, on the observation step() returns:
\* the one of the new tab when the step switched tabs.
returned_observation(obs1, obs2, switched, msg) == [(IF switched THEN obs2 ELSE obs1) EXCEPT !.error_message = msg]

\* step() raises e: the exception leaves act() as well.
StepRaises(e, es, pgs, pg) ==
    /\ pc' = "raised" /\ exc' = [e |-> e, in |-> "step"]
    /\ env_state' = es /\ pages' = pgs /\ page' = pg
    /\ UNCHANGED <<i, observation, result, returned_steps>>

\* step() returns obs; the driver stores it and checks the task status.
StepReturns(obs, es, pgs, pg) ==
    /\ observation' = obs
    /\ returned_steps' = returned_steps + 1
    /\ env_state' = es /\ pages' = pgs /\ page' = pg
    /\ LET task_status == get_task_status(es)
       IN  IF task_status \in {SUCCESS, FAILED}
           THEN pc' = "returned" /\ result' = [status |-> task_status, output |-> es.output] /\ i' = i
           ELSE pc' = "loop" /\ result' = result /\ i' = i + 1
    /\ exc' = exc

\* The rest of step() after exec(): timeframe, first observation, the switch
\* to a newly opened tab, and the return into the loop of act().
StepEnd ==
    /\ pc = "post"
    /\ \E m1 \in Markings, blank1 \in BOOLEAN :
        LET es == [env_state EXCEPT !.timeframe = @ + 1]
            o1 == get_observation(page, m1, blank1)
        IN  IF o1.raised # NoExc
            THEN StepRaises(o1.raised, es, pages, page)
            ELSE IF Len(pages) > 1
            THEN \E m2 \in Markings, blank2 \in BOOLEAN :
                    LET pgs == close_page(pages, page)
                        pg == Last(pgs)
                        o2 == get_observation(pg, m2, blank2)
                    IN  IF o2.raised # NoExc
                        THEN StepRaises(o2.raised, es, pgs, pg)
                        ELSE StepReturns(returned_observation(o1.obs, o2.obs, TRUE, error_message), es, pgs, pg)
            ELSE StepReturns(returned_observation(o1.obs, o1.obs, FALSE, error_message), es, pages, page)
    /\ error_message' = NoMessage /\ step_info' = NoStep
    /\ UNCHANGED <<script, ip, kind, agents, acts, max_actions, log_history, page_seq, oracle_calls, steps, total_steps, finish_in_act, finish_ever, last_finish, unit_vars, part_vars>>

\* The for loop ran max_actions iterations without a terminal status: the
\* warning is formatted with the loop variable, then FAILED is returned.
LoopExit ==
    /\ pc = "loop" /\ i = max_actions
    /\ IF max_actions = 0
       THEN pc' = "raised" /\ exc' = [e |-> UnboundLocalExc, in |-> "act"] /\ result' = result
       ELSE pc' = "returned" /\ result' = [status |-> FAILED, output |-> env_state.output] /\ exc' = exc
    /\ UNCHANGED <<act_vars, env_state, log_history, observation, script, ip, error_message, browser_vars, oracle_calls, steps, total_steps, finish_in_act, finish_ever, last_finish, step_info, returned_steps, unit_vars, part_vars>>

Next == ModuleAct \/ StatefulInit \/ StatefulAct \/ OracleCall \/ ExecFinish \/ ExecClick \/ ExecRaise \/ StepEnd \/ LoopExit

Spec == Init /\ [][Next]_vars

(* ------------------- a click called on its own -------------------------- *)
\* Everything of the loop at rest while a primitive or a marking pass is
\* exercised on its own.
AtRest ==
    /\ kind = "none" /\ agents = 0 /\ acts = 0 /\ max_actions = 0 /\ i = 0
    /\ env_state = NewEnvState
    /\ script = 0 /\ ip = 0 /\ error_message = NoMessage
    /\ pages = <<1>> /\ page = 1 /\ page_seq = 1
    /\ result = NoResult /\ exc = [e |-> NoExc, in |-> "none"]
    /\ oracle_calls = 0 /\ steps = 0 /\ total_steps = 0 /\ finish_in_act = FALSE /\ finish_ever = FALSE
    /\ last_finish = NoFinish /\ step_info = NoStep
    /\ returned_steps = 0

ClickArgs == [item_id : ItemIds, log_message : LogMessages, force : BOOLEAN]
MarkedObservations == {[NoObservation EXCEPT !.page = 1, !.marked_elements = m] : m \in Markings}

ClickInit ==
    /\ AtRest /\ pc = "click_call" /\ log_history = <<>>
    /\ observation \in MarkedObservations
    /\ call_args \in ClickArgs /\ last_call = NoCall
    /\ page_frames = <<>> /\ last_mark = NoMark
    /\ PartsAtRest

\* actions.click(item_id, log_message, force) on the observed page, the
\* browser free to answer every low-level attempt in any way.
ClickCall ==
    /\ pc = "click_call"
    /\ \E r \in click(observation.marked_elements, call_args.item_id, call_args.log_message, call_args.force, LowOutcomes, 1) :
        /\ Len(log_history) + Len(r.logs) <= MaxLog
        /\ log_history' = log_history \o r.logs
        /\ last_call' = r
    /\ pc' = "click_done"
    /\ UNCHANGED <<act_vars, env_state, observation, script, ip, error_message, browser_vars, result, exc, oracle_calls, steps, total_steps, finish_in_act, finish_ever, last_finish, step_info, call_args, page_frames, last_mark, returned_steps, part_vars>>

\* The next click of the sequence, on a page marked anew.
ClickAgain ==
    /\ pc = "click_done"
    /\ observation' \in MarkedObservations
    /\ call_args' \in ClickArgs /\ last_call' = NoCall
    /\ pc' = "click_call"
    /\ UNCHANGED <<act_vars, env_state, log_history, script, ip, error_message, browser_vars, result, exc, oracle_calls, steps, total_steps, finish_in_act, finish_ever, last_finish, step_info, page_frames, last_mark, returned_steps, part_vars>>

ClickNext == ClickCall \/ ClickAgain

SpecClick == ClickInit /\ [][ClickNext]_vars

(* ----------------- a marking pass called on its own --------------------- *)
MarkPages == FrameSeqsOf(MarkMaxFrames, MarkMaxElems)

MarkInit ==
    /\ AtRest /\ pc = "mark_call" /\ log_history = <<>>
    /\ observation = NoObservation
    /\ call_args = NoArgs /\ last_call = NoCall
    /\ page_frames \in MarkPages /\ last_mark = NoMark
    /\ PartsAtRest

\* _mark_elements() on the page
MarkPass ==
    /\ pc = "mark_call"
    /\ last_mark' = mark_elements(page_frames)
    /\ pc' = "mark_done"
    /\ UNCHANGED <<act_vars, env_state, log_history, observation, script, ip, error_message, browser_vars, result, exc, oracle_calls, steps, total_steps, finish_in_act, finish_ever, last_finish, step_info, call_args, last_call, page_frames, returned_steps, part_vars>>

\* The page changes; the next pass starts from nothing.
MarkAgain ==
    /\ pc = "mark_done"
    /\ page_frames' \in MarkPages /\ last_mark' = NoMark
    /\ pc' = "mark_call"
    /\ UNCHANGED <<act_vars, env_state, log_history, observation, script, ip, error_message, browser_vars, result, exc, oracle_calls, steps, total_steps, finish_in_act, finish_ever, last_finish, step_info, call_args, last_call, returned_steps, part_vars>>

MarkNext == MarkPass \/ MarkAgain

SpecMark == MarkInit /\ [][MarkNext]_vars

(* ------------------ primitives called on their own --------------------- *)
Primitives == {"click", "override_click", "scroll", "combobox_select", "input_text", "upload_files"}
PrimArgs == [prim : Primitives, item_id : ItemIds, log_message : LogMessages, force : BOOLEAN, direction : {"down", "sideways"}, form_button : BOOLEAN]
NoPrimResult == PrimResult(NoExc, <<>>, <<>>)

\* The ways the call args of a primitive can end on a page marked as m.
primitive_results(m, args) ==
    CASE args.prim = "click" -> {PrimResult(r.ret, r.logs, r.trace) : r \in click(m, args.item_id, args.log_message, args.force, LowOutcomes, 1)}
      [] args.prim = "override_click" -> UNION {override_click(m, args.item_id, args.log_message, args.force, args.form_button, low, LowOutcomes) : low \in Lows}
      [] args.prim = "scroll" -> {scroll(args.direction, args.log_message, low) : low \in Lows}
      [] args.prim = "combobox_select" -> {combobox_select(m, args.item_id, args.log_message, low1, low2) : low1 \in Lows, low2 \in Lows}
      [] args.prim = "input_text" -> {input_text(m, args.item_id, args.log_message, low) : low \in Lows}
      [] args.prim = "upload_files" -> {upload_files(m, args.item_id, args.log_message, low1, low2, watch) : low1 \in Lows, low2 \in Lows, watch \in {"opened", "timeout"}}

PrimInit ==
    /\ AtRest /\ pc = "prim_call" /\ log_history = <<>>
    /\ observation \in MarkedObservations
    /\ call_args \in PrimArgs /\ last_call = NoPrimResult
    /\ page_frames = <<>> /\ last_mark = NoMark
    /\ PartsAtRest

\* One primitive call of a script, on the observed page.
PrimCall ==
    /\ pc = "prim_call"
    /\ \E r \in primitive_results(observation.marked_elements, call_args) :
        /\ Len(log_history) + Len(r.logs) <= MaxLog
        /\ log_history' = log_history \o r.logs
        /\ last_call' = r
    /\ pc' = "prim_done"
    /\ UNCHANGED <<act_vars, env_state, observation, script, ip, error_message, browser_vars, result, exc, oracle_calls, steps, total_steps, finish_in_act, finish_ever, last_finish, step_info, call_args, page_frames, last_mark, returned_steps, part_vars>>

\* The next primitive call, on a page marked anew.
PrimAgain ==
    /\ pc = "prim_done"
    /\ observation' \in MarkedObservations
    /\ call_args' \in PrimArgs /\ last_call' = NoPrimResult
    /\ pc' = "prim_call"
    /\ UNCHANGED <<act_vars, env_state, log_history, script, ip, error_message, browser_vars, result, exc, oracle_calls, steps, total_steps, finish_in_act, finish_ever, last_finish, step_info, page_frames, last_mark, returned_steps, part_vars>>

PrimNext == PrimCall \/ PrimAgain

SpecPrimitives == PrimInit /\ [][PrimNext]_vars

(* --------------------- input_text called on its own ------------------- *)
TextChars == {"a", "b"}
Texts == UNION {[1..n -> TextChars] : n \in 0..MaxTextLen}
Tags == {"input", "textarea", "div", "DIV"}
InputArgs == [item_id : ItemIds, text : Texts, clear_before_input : BOOLEAN, log_message : LogMessages]
NoInputArgs == [item_id |-> 0, text |-> <<>>, clear_before_input |-> FALSE, log_message |-> ""]
NoInputResult == [ret |-> NoExc, logs |-> <<>>, trace |-> <<>>, before |-> <<>>]

\* A page with a marked element of some kind, holding some text.
InputInit ==
    /\ AtRest /\ pc = "input" /\ log_history = <<>>
    /\ observation \in MarkedObservations
    /\ call_args = NoInputArgs /\ last_call = NoInputResult
    /\ page_frames = <<>> /\ last_mark = NoMark
    /\ obs_call = NoObsCall /\ script_run = NoScriptRun /\ current_url = NoUrl /\ page_url = <<>> /\ nav_info = NoNav
    /\ element \in [tag : Tags, content : Texts] /\ overlays = NoOverlays

\* actions.input_text(item_id, text, clear_before_input, log_message); the
\* element of the page is the one marked with id 0.
InputText ==
    /\ pc = "input"
    /\ \E args \in InputArgs, low \in Lows :
        LET r == input_text(observation.marked_elements, args.item_id, args.log_message, low)
            func == element_func(input_func(args.clear_before_input), element.tag)
        IN  /\ Len(log_history) + Len(r.logs) <= MaxLog
            /\ log_history' = log_history \o r.logs
            /\ call_args' = args
            /\ last_call' = [ret |-> r.ret, logs |-> r.logs, trace |-> r.trace, before |-> element.content]
            /\ element' = IF r.ret = NoExc THEN [element EXCEPT !.content = element_call(func, @, args.text)] ELSE element
    /\ pc' = "input"
    /\ UNCHANGED <<act_vars, env_state, observation, script, ip, error_message, browser_vars, result, exc, oracle_calls, steps, total_steps, finish_in_act, finish_ever, last_finish, step_info, page_frames, last_mark, returned_steps, obs_call, script_run, current_url, page_url, nav_info, overlays>>

SpecInput == InputInit /\ [][InputText]_vars

(* ------------ an observation synthesis, statement by statement -------- *)
ObsInit ==
    /\ AtRest /\ pc = "obs_mark" /\ log_history = <<>>
    /\ observation = NoObservation
    /\ call_args = NoArgs /\ last_call = NoCall
    /\ page_frames \in MarkPages /\ last_mark = NoMark
    /\ obs_call \in [blank : {FALSE}, extras : 0..MaxExtractors, events : {<<>>}]
    /\ script_run = NoScriptRun /\ current_url = NoUrl /\ page_url = <<>> /\ nav_info = NoNav /\ element = NoElement /\ overlays = NoOverlays

obs_rest == <<act_vars, env_state, log_history, script, ip, error_message, browser_vars, result, oracle_calls, steps, total_steps, finish_in_act, finish_ever, last_finish, step_info, call_args, last_call, returned_steps, script_run, current_url, page_url, nav_info, element, overlays>>

\* marked_elements = self._mark_elements()
ObsMark ==
    /\ pc = "obs_mark"
    /\ last_mark' = mark_elements(page_frames)
    /\ obs_call' = [obs_call EXCEPT !.events = Append(@, "mark_elements")]
    /\ pc' = "obs_shot"
    /\ UNCHANGED <<obs_rest, observation, exc, page_frames>>

\* screenshot = self.page.screenshot()
ObsScreenshot ==
    /\ pc = "obs_shot"
    /\ \E blank \in BOOLEAN : obs_call' = [obs_call EXCEPT !.blank = blank, !.events = Append(@, "screenshot")]
    /\ pc' = "obs_check"
    /\ UNCHANGED <<obs_rest, observation, exc, page_frames, last_mark>>

\* if len(screenshot) == 0 or _is_screenshot_empty(screenshot): raise
ObsBlankCheck ==
    /\ pc = "obs_check"
    /\ IF obs_call.blank
       THEN pc' = "obs_raised" /\ exc' = [e |-> WebpageEmptyException, in |-> "get_observation"]
       ELSE pc' = "obs_fields" /\ exc' = exc
    /\ UNCHANGED <<obs_rest, observation, page_frames, last_mark, obs_call>>

\* The events of evaluating n extractors, in order.
extractor_events(n) == [k \in 1..n |-> "extractor"]

\* return WebpageObservation(url=self.page.url, ..., additional_observations=...)
ObsFields ==
    /\ pc = "obs_fields"
    /\ obs_call' = [obs_call EXCEPT !.events = Append(@, "url") \o extractor_events(obs_call.extras)]
    /\ observation' = get_observation(page, last_mark.dict, obs_call.blank).obs
    /\ pc' = "obs_done"
    /\ UNCHANGED <<obs_rest, exc, page_frames, last_mark>>

\* The next synthesis, on a page that has changed.
ObsAgain ==
    /\ pc \in {"obs_done", "obs_raised"}
    /\ page_frames' \in MarkPages /\ last_mark' = NoMark
    /\ obs_call' = [obs_call EXCEPT !.blank = FALSE, !.events = <<>>]
    /\ observation' = NoObservation /\ exc' = [e |-> NoExc, in |-> "none"]
    /\ pc' = "obs_mark"
    /\ UNCHANGED obs_rest

ObsNext == ObsMark \/ ObsScreenshot \/ ObsBlankCheck \/ ObsFields \/ ObsAgain

SpecObs == ObsInit /\ [][ObsNext]_vars

(* ------------------- the error message of a script -------------------- *)
\* Text is a sequence of characters; a fixed piece of text is one element.
Chars == {"a", " ", "\n"}
Codes == UNION {[1..n -> Chars] : n \in 1..MaxCodeLen}

\* code.split("\n")
RECURSIVE split(_, _)
split(text, sep) ==
    IF \A k \in DOMAIN text : text[k] # sep THEN <<text>>
    ELSE LET at == CHOOSE k \in DOMAIN text : text[k] = sep /\ \A j \in 1..(k - 1) : text[j] # sep
         IN  <<SubSeq(text, 1, at - 1)>> \o split(SubSeq(text, at + 1, Len(text)), sep)

\* str.lstrip()
RECURSIVE lstrip(_)
lstrip(text) == IF text # <<>> /\ Head(text) = " " THEN lstrip(Tail(text)) ELSE text

\* The traceback of an exception exec(code) raised: the frame of step(), then,
\* for an error raised while the script runs, the frame of the script at the
\* failing line and under it the frames of the primitive it called.  A
\* SyntaxError is raised by the compilation, before any frame of the script
\* exists.
StepFrame == [co_name |-> "step", co_filename |-> "browser.py", tb_lineno |-> 86]
PrimitiveFrame == [co_name |-> "click", co_filename |-> "actions.py", tb_lineno |-> 101]
traceback(failure) ==
    IF failure.kind = "syntax" THEN <<StepFrame>>
    ELSE <<StepFrame, [co_name |-> "<module>", co_filename |-> "<string>", tb_lineno |-> failure.lineno]>> \o (IF failure.inner THEN <<PrimitiveFrame>> ELSE <<>>)

\* str(e)
Digits == <<"0", "1", "2", "3", "4", "5", "6", "7", "8", "9">>
error_text(failure) == IF failure.kind = "syntax" THEN <<"invalid syntax (<string>, line ", Digits[failure.lineno + 1], ")">> ELSE <<"name is not defined">>

\* the while loop over exc_tb
RECURSIVE line_of_code(_, _)
line_of_code(code, exc_tb) ==
    IF exc_tb = <<>> THEN <<"N/A">>
    ELSE IF Head(exc_tb).co_name = "<module>" /\ Head(exc_tb).co_filename = "<string>"
         THEN lstrip(split(code, "\n")[Head(exc_tb).tb_lineno])
         ELSE line_of_code(code, Tail(exc_tb))

\* f'Error in execution of script. At line: "{line_of_code}". Error: "{e}"'
script_error_message(code, failure) == <<"Error in execution of script. At line: \"">> \o line_of_code(code, traceback(failure)) \o <<"\". Error: \"">> \o error_text(failure) \o <<"\"">>

\* The failures a script can end with: at a line of it, which holds a
\* statement; an indented statement that runs has a block header above it.
Failures(code) ==
    LET lines == split(code, "\n")
    IN  {f \in [kind : {"runtime", "syntax"}, lineno : DOMAIN lines, inner : BOOLEAN] :
            /\ lstrip(lines[f.lineno]) # <<>>
            /\ f.kind = "syntax" => ~f.inner
            /\ (f.kind = "runtime" /\ Head(lines[f.lineno]) = " ") => f.lineno > 1}

ScriptInit ==
    /\ AtRest /\ pc = "script_call" /\ log_history = <<>>
    /\ observation = NoObservation
    /\ call_args = NoArgs /\ last_call = NoCall
    /\ page_frames = <<>> /\ last_mark = NoMark
    /\ obs_call = NoObsCall
    /\ \E c \in Codes : \E f \in Failures(c) : script_run = [code |-> c, failure |-> f, message |-> <<>>]
    /\ current_url = NoUrl /\ page_url = <<>> /\ nav_info = NoNav /\ element = NoElement /\ overlays = NoOverlays

script_rest == <<act_vars, env_state, log_history, observation, script, ip, error_message, browser_vars, result, exc, oracle_calls, steps, total_steps, finish_in_act, finish_ever, last_finish, step_info, unit_vars, returned_steps, obs_call, current_url, page_url, nav_info, element, overlays>>

\* exec(code) raising, and the except clause of step()
ScriptRaise ==
    /\ pc = "script_call"
    /\ script_run' = [script_run EXCEPT !.message = script_error_message(script_run.code, script_run.failure)]
    /\ pc' = "script_done"
    /\ UNCHANGED script_rest

\* The script of the next step.
ScriptAgain ==
    /\ pc = "script_done"
    /\ \E c \in Codes : \E f \in Failures(c) : script_run' = [code |-> c, failure |-> f, message |-> <<>>]
    /\ pc' = "script_call"
    /\ UNCHANGED script_rest

ScriptNext == ScriptRaise \/ ScriptAgain

SpecScript == ScriptInit /\ [][ScriptNext]_vars

(* ------------------ the navigation check of a step -------------------- *)
\* A URL, parsed: the components before the query as one, and the query.
URLs == [path : {"/a", "/b"}, query : {"x=1", "x=2"}]

\* urlunparse(urlparse(url)._replace(query=""))
strip_query(url) == [url EXCEPT !.query = ""]

\* reset(url): one tab, showing what the site served for url; current_url is
\* the url asked for.
NavInit ==
    /\ AtRest /\ pc = "nav" /\ log_history = <<>>
    /\ observation = NoObservation
    /\ call_args = NoArgs /\ last_call = NoCall
    /\ page_frames = <<>> /\ last_mark = NoMark
    /\ obs_call = NoObsCall /\ script_run = NoScriptRun
    /\ current_url \in URLs
    /\ \E u \in URLs : page_url = [t \in {1} |-> u]
    /\ nav_info = NoNav /\ element = NoElement /\ overlays = NoOverlays

nav_rest == <<act_vars, env_state, log_history, observation, script, ip, error_message, result, exc, oracle_calls, steps, total_steps, finish_in_act, finish_ever, last_finish, step_info, unit_vars, returned_steps, obs_call, script_run, element, overlays>>

\* step(), as far as URLs and tabs go: the script leaves the tracked tab at
\* some URL and opens some tabs; the navigation check compares the tab's URL
\* with current_url; then the switch to the newest tab.
NavStep ==
    /\ pc = "nav"
    /\ \E after \in URLs, k \in 0..MaxNewTabs :
        /\ page_seq + k <= MaxPages
        /\ \E new_urls \in [1..k -> URLs] :
            LET opened == NewTabs(k)
                all_pages == pages \o opened
                url_of(t) == IF t = page THEN after ELSE IF t \in Range(opened) THEN new_urls[t - page_seq] ELSE page_url[t]
                waited == strip_query(after) # strip_query(current_url)
                pgs == IF Len(all_pages) > 1 THEN close_page(all_pages, page) ELSE all_pages
            IN  /\ nav_info' = [before |-> page_url[page], after |-> after, waited |-> waited]
                /\ current_url' = IF waited THEN after ELSE current_url
                /\ pages' = pgs
                /\ page' = Last(pgs)
                /\ page_seq' = page_seq + k
                /\ page_url' = [t \in Range(pgs) |-> url_of(t)]
    /\ pc' = "nav"
    /\ UNCHANGED nav_rest

SpecNav == NavInit /\ [][NavStep]_vars

(* --------------- marking overlays over the steps of a task ------------ *)
OverlayPages == FrameSeqsOf(MarkMaxFrames, 1)

\* What evaluating the removal script in one frame can end with: it ran, it
\* raised, it raised an error whose text holds "Target closed".
RemovalOutcomes == {"ok", "error", "target_closed"}

\* The frames a marking pass leaves an overlay in.
marked_frames(frames) == [f \in DOMAIN frames |-> frames[f].n > 0 /\ ~frames[f].fails]

NoFrames(frames) == [f \in DOMAIN frames |-> FALSE]

\* The for loop of _remove_elements_marks from frame f on: the frames whose
\* overlays are left, the frames the script was evaluated in, and the frames
\* it ran in without raising.
RECURSIVE remove_elements_marks(_, _, _, _, _)
remove_elements_marks(present, outs, f, tried, cleared) ==
    IF f > Len(present) THEN [present |-> present, tried |-> tried, cleared |-> cleared]
    ELSE IF outs[f] = "ok" THEN remove_elements_marks([present EXCEPT ![f] = FALSE], outs, f + 1, [tried EXCEPT ![f] = TRUE], [cleared EXCEPT ![f] = TRUE])
    ELSE IF outs[f] = "target_closed" THEN [present |-> present, tried |-> [tried EXCEPT ![f] = TRUE], cleared |-> cleared]
    ELSE remove_elements_marks(present, outs, f + 1, [tried EXCEPT ![f] = TRUE], cleared)

\* After reset(): one tab, marked by the first get_observation.
OverlayInit ==
    /\ AtRest /\ pc = "ov_exec" /\ log_history = <<>>
    /\ observation = NoObservation
    /\ call_args = NoArgs /\ last_call = NoCall
    /\ page_frames \in OverlayPages /\ last_mark = mark_elements(page_frames)
    /\ obs_call = NoObsCall /\ script_run = NoScriptRun /\ current_url = NoUrl /\ page_url = <<>> /\ nav_info = NoNav /\ element = NoElement
    /\ overlays = [present |-> marked_frames(page_frames), tried |-> NoFrames(page_frames), cleared |-> NoFrames(page_frames), stale |-> NoFrames(page_frames), exit |-> "none"]

overlay_rest == <<act_vars, env_state, log_history, observation, script, ip, error_message, result, exc, oracle_calls, steps, total_steps, finish_in_act, finish_ever, last_finish, step_info, call_args, last_call, returned_steps, obs_call, script_run, current_url, page_url, nav_info, element>>

\* The try statement of step(): exec(code) ends normally, with an Exception
\* (caught) or with another BaseException (not caught); the finally clause
\* runs _remove_elements_marks() in each case.
OverlayExec ==
    /\ pc = "ov_exec"
    /\ \E exit \in {"normal", "exception", "base_exception"}, outs \in [DOMAIN page_frames -> RemovalOutcomes] :
        LET r == remove_elements_marks(overlays.present, outs, 1, NoFrames(page_frames), NoFrames(page_frames))
        IN  /\ overlays' = [present |-> r.present, tried |-> r.tried, cleared |-> r.cleared, stale |-> NoFrames(page_frames), exit |-> exit]
            /\ pc' = IF exit = "base_exception" THEN "ov_raised" ELSE "ov_mark"
    /\ UNCHANGED <<overlay_rest, browser_vars, page_frames, last_mark>>

\* The rest of step(): get_observation() marks the tracked page; when the
\* script opened a tab, the tracked page is closed and the newest tab, never
\* marked before, is marked.
OverlayMark ==
    /\ pc = "ov_mark"
    /\ \/ /\ overlays' = [overlays EXCEPT !.stale = overlays.present, !.present = [f \in DOMAIN page_frames |-> overlays.present[f] \/ marked_frames(page_frames)[f]]]
          /\ last_mark' = mark_elements(page_frames)
          /\ UNCHANGED <<browser_vars, page_frames>>
       \/ /\ page_seq < MaxPages
          /\ \E new_page \in OverlayPages :
              /\ page_frames' = new_page
              /\ last_mark' = mark_elements(new_page)
              /\ overlays' = [present |-> marked_frames(new_page), tried |-> NoFrames(new_page), cleared |-> NoFrames(new_page), stale |-> NoFrames(new_page), exit |-> overlays.exit]
          /\ page_seq' = page_seq + 1 /\ page' = page_seq + 1 /\ pages' = <<page_seq + 1>>
    /\ pc' = "ov_exec"
    /\ UNCHANGED overlay_rest

OverlayNext == OverlayExec \/ OverlayMark

SpecOverlay == OverlayInit /\ [][OverlayNext]_vars

(* ------------------------------ claims --------------------------------- *)
ActEnded == pc \in {"returned", "raised"} /\ exc.in # "reset"
StepReturned == pc = "post" /\ pc' \in {"loop", "returned"}
IsSubSeq(sub, text) == \E k \in 0..(Len(text) - Len(sub)) : SubSeq(text, k + 1, k + Len(sub)) = sub
Count(seq, x) == Cardinality({k \in DOMAIN seq : seq[k] = x})
MentionsUploadFiles(msg) == msg.set /\ \E k \in DOMAIN msg.error : msg.error[k] = "Consider using upload_files() instead of click()"

\* C1: with a step budget N >= 1 and no script ever calling finish, act()
\* ends only by returning (FAILED, env_state.output) after exactly N oracle
\* calls and N steps.
C1_BudgetExhaustedReturnsFailed ==
    (ActEnded /\ max_actions >= 1 /\ ~finish_ever) =>
        /\ pc = "returned"
        /\ result = [status |-> FAILED, output |-> env_state.output]
        /\ oracle_calls = max_actions /\ steps = max_actions

\* C2: once a script of the running act() has called finish, act() ends by
\* returning right after that step, with SUCCESS or FAILED as the latest
\* finish call said and with its output; no oracle call follows.
C2_FinishEndsTheLoop ==
    (ActEnded /\ finish_in_act) =>
        /\ pc = "returned"
        /\ result = [status |-> IF last_finish.did_succeed THEN SUCCESS ELSE FAILED, output |-> last_finish.output]
        /\ oracle_calls = i + 1 /\ steps = i + 1

\* C3: act() never ends by an exception leaving step(); when it returns, a
\* finish call or the exhausted budget is the reason.
C3_NoStepErrorEndsTheLoop ==
    /\ pc = "raised" => exc.in # "step"
    /\ pc = "returned" => (finish_ever \/ i = max_actions)

C5_FlagsExclusive ==
    /\ ~(env_state.has_successfully_completed /\ env_state.has_failed)
    /\ get_task_status(env_state) = SUCCESS <=> env_state.has_successfully_completed
    /\ get_task_status(env_state) = FAILED <=> env_state.has_failed
    /\ get_task_status(env_state) = IN_PROGRESS <=> (~env_state.has_successfully_completed /\ ~env_state.has_failed)

\* finish(False, ...) then finish(True, ...) have run on one EnvState
C5_Witness == env_state.has_successfully_completed /\ step_info.finish_called /\ step_info.status_before = FAILED

\* C6: a finish call sets the flags and the output from its arguments
\* whatever the state before, a second call with the same arguments changes
\* nothing, and the call leaves timeframe, log_history and the browser alone.
C6_FinishSetsFlagsOnly ==
    [][ExecFinish =>
        /\ env_state'.has_successfully_completed = last_finish'.did_succeed
        /\ env_state'.has_failed = ~last_finish'.did_succeed
        /\ env_state'.output = last_finish'.output
        /\ finish(env_state', last_finish'.did_succeed, last_finish'.output) = env_state'
        /\ env_state'.timeframe = env_state.timeframe
        /\ log_history' = log_history
        /\ pages' = pages /\ page' = page /\ page_seq' = page_seq]_vars

\* finish has run on a state with a non-empty log_history and a failed task
C6_Witness == step_info.finish_called /\ step_info.status_before = FAILED /\ log_history # <<>> /\ env_state.has_successfully_completed /\ env_state.output # EmptyOutput

\* C7: a step whose script opened tabs closes the tracked tab and returns an
\* observation of the newest tab, which becomes the tracked one; a step whose
\* script opened none returns an observation of the tab of the observation
\* before it.
C7_ObservationsStayOnNewTab ==
    [][StepReturned =>
        IF step_info.opened > 0
        THEN page \notin Range(pages') /\ page' = Last(pages) /\ observation'.page = page'
        ELSE observation'.page = observation.page /\ page' = page]_vars

\* C8: one logical click makes at most one forced retry, so at most two
\* low-level attempts; none when called with force; and it retries only after
\* an unstable-element failure of the first attempt with no file chooser.
C8_AtMostOneForcedRetry ==
    pc = "click_done" =>
        /\ last_call.retries <= 1 /\ last_call.attempts <= 1 + last_call.retries
        /\ call_args.force => last_call.retries = 0
        /\ last_call.retries = 1 => last_call.first = [low |-> UnstableExc, watch |-> "timeout"]

\* an unforced click has retried, forced
C8_Witness == pc = "click_done" /\ ~call_args.force /\ last_call.retries = 1 /\ last_call.attempts = 2

\* C9: a click during which a file chooser opened ends with the error that
\* names upload_files, and the observation of that step mentions
\* upload_files.
C9_FileChooserIsAnError ==
    [][/\ step_info'.chooser => (step_info'.raised = FileChooserExc /\ MentionsUploadFiles(error_message'))
       /\ (StepReturned /\ step_info.chooser) => MentionsUploadFiles(observation'.error_message)]_vars

\* a step during whose click a file chooser opened has returned
C9_Witness == pc \in {"loop", "returned"} /\ MentionsUploadFiles(observation.error_message)

\* C10: in the element list of a marking pass no two elements share an id,
\* the map has one entry per element, and a frame whose script failed
\* contributes no element.
C10_MarkedIdsUnique ==
    pc = "mark_done" =>
        /\ \A j, k \in DOMAIN last_mark.list : last_mark.list[j].id = last_mark.list[k].id => j = k
        /\ Cardinality(DOMAIN last_mark.dict) = Len(last_mark.list)
        /\ \A k \in DOMAIN last_mark.list : last_mark.dict[last_mark.list[k].id] = last_mark.list[k]
        /\ \A k \in DOMAIN last_mark.list : ~page_frames[last_mark.list[k].iframe].fails

\* a pass over three frames, the middle one failing, the others marked
C10_Witness == pc = "mark_done" /\ Len(page_frames) = 3 /\ page_frames[2].fails /\ page_frames[2].n > 0 /\ \E j, k \in DOMAIN last_mark.list : last_mark.list[j].iframe = 1 /\ last_mark.list[k].iframe = 3

\* C11: when the screenshot is blank, get_observation raises before anything
\* else of the observation is computed: no marking pass, no url read and no
\* extractor has run when the blank check fails.
C11_BlankCheckComesFirst ==
    pc = "obs_raised" => \A k \in DOMAIN obs_call.events : obs_call.events[k] \notin {"mark_elements", "url", "extractor"}

\* C12: the error message of a script that raised at its line k contains the
\* literal text of line k and the text of the error.
C12_MessageQuotesTheLine ==
    pc = "script_done" =>
        /\ IsSubSeq(split(script_run.code, "\n")[script_run.failure.lineno], script_run.message)
        /\ IsSubSeq(error_text(script_run.failure), script_run.message)

\* C13: a step invokes the load wait of its navigation check exactly when
\* the URL of the tracked tab after the script differs, query stripped, from
\* its URL before the step.
C13_WaitIffUrlChanged ==
    (pc = "nav" /\ nav_info # NoNav) =>
        (nav_info.waited <=> strip_query(nav_info.after) # strip_query(nav_info.before))

\* C14: every act() on a StatefulAgent starts with the task IN_PROGRESS,
\* returns SUCCESS only if a script of that invocation called finish with
\* did_succeed true, and returns before its budget is used up only if a
\* script of that invocation called finish.
C14_EachActStartsInProgress ==
    /\ (kind = "stateful" /\ pc = "loop" /\ steps = 0) => get_task_status(env_state) = IN_PROGRESS
    /\ (kind = "stateful" /\ pc = "returned") =>
        /\ result.status = SUCCESS => (finish_in_act /\ last_finish.did_succeed)
        /\ i < max_actions => finish_in_act

\* C15: right after reset() the EnvState is fresh (flags false, timeframe 0,
\* output empty) and its log_history is empty, whatever ran before in the
\* process.
C15_ResetGivesFreshState ==
    (pc \in {"loop", "idle"} /\ acts = 0 /\ steps = 0) => (env_state = NewEnvState /\ log_history = <<>>)

\* C16: output changes only by a finish call (or with the EnvState itself, at
\* reset), and within one act() it does not change again once a script of
\* that act() has called finish.
C16_OutputSetOnce ==
    [][/\ env_state'.output # env_state.output => (ExecFinish \/ ModuleAct \/ StatefulInit)
       /\ (finish_in_act /\ finish_in_act') => env_state'.output = env_state.output]_vars

\* C17: timeframe decreases only when reset() makes a new EnvState, a step
\* that returns raises it by exactly 1, and between steps it equals the
\* number of steps that returned since reset().
C17_TimeframeCountsSteps ==
    [][/\ env_state'.timeframe < env_state.timeframe => (ModuleAct \/ StatefulInit)
       /\ StepReturned => env_state'.timeframe = env_state.timeframe + 1
       /\ pc' \in {"idle", "loop", "returned", "raised"} => env_state'.timeframe = returned_steps']_vars

\* C18: a primitive called with a non-empty log message appends it to
\* log_history exactly once, before it interacts with the page; also when
\* the interaction fails, when click retries, and in the overriding click.
C18_MessageLoggedOnceFirst ==
    (pc = "prim_done" /\ call_args.log_message # "") =>
        /\ last_call.logs = <<call_args.log_message>>
        /\ Count(last_call.trace, "log") = 1 /\ Head(last_call.trace) = "log"
        /\ log_history # <<>> /\ Last(log_history) = call_args.log_message

\* C19: log_history never holds an empty message, whatever primitives were
\* called with whatever log messages.
C19_NoEmptyLogEntry == pc \in {"prim_call", "prim_done"} => \A k \in DOMAIN log_history : log_history[k] # ""

\* C20: a click whose low-level attempt fails because the execution context
\* was destroyed, no file chooser having opened, reloads the page exactly once
\* and returns normally, forced or not; no click reloads more than once, and
\* one that reloaded raised nothing.
C20_ContextDestroyedReloads ==
    pc = "click_done" =>
        /\ last_call.first = [low |-> ContextDestroyedExc, watch |-> "timeout"] =>
            (last_call.ret = NoExc /\ last_call.reloads = 1 /\ Count(last_call.trace, "reload") = 1 /\ last_call.retries = 0 /\ last_call.attempts = 1)
        /\ last_call.reloads <= 1
        /\ last_call.reloads = 1 => last_call.ret = NoExc

\* a forced click has failed with a destroyed context and reloaded the page
C20_Witness == pc = "click_done" /\ call_args.force /\ last_call.first = [low |-> ContextDestroyedExc, watch |-> "timeout"] /\ last_call.reloads = 1 /\ last_call.ret = NoExc

\* C21: a click whose low-level attempt fails with an exception that is
\* neither the unstable-element condition (with force false) nor the
\* context-destroyed condition, no file chooser having opened, raises that
\* same exception, whatever its type and the shape of its message.
C21_OtherExceptionPropagates ==
    (/\ pc = "click_done"
     /\ last_call.first.watch = "timeout" /\ last_call.first.low # NoExc
     /\ ~(is_unstable_element_exception(last_call.first.low) /\ ~call_args.force)
     /\ ~is_context_destroyed_exception(last_call.first.low)) => last_call.ret = last_call.first.low

\* C22: click, the overriding click, input_text, upload_files and
\* combobox_select, called with an id that is not in the marked-elements map,
\* fail with the element-not-marked error and interact with no element.
C22_UnmarkedIdIsNotMarkedError ==
    (/\ pc = "prim_done"
     /\ call_args.prim \in {"click", "override_click", "input_text", "upload_files", "combobox_select"}
     /\ call_args.item_id \notin DOMAIN observation.marked_elements) =>
        /\ last_call.ret = NotMarkedExc
        /\ \A k \in DOMAIN last_call.trace : last_call.trace[k] \notin {"interact", "set_files", "reload"}

\* C23: a successful input_text with clear_before_input true leaves the
\* element holding exactly the text, whatever kind of element it is; with
\* clear_before_input false the text is appended to what the element held.
C23_ClearReplacesContent ==
    (pc = "input" /\ call_args # NoInputArgs /\ last_call.ret = NoExc) =>
        /\ call_args.clear_before_input => element.content = call_args.text
        /\ ~call_args.clear_before_input => element.content = last_call.before \o call_args.text

\* C24: upload_files clicks unforced first and forced at most once more,
\* only after an unstable-element failure; when the file chooser opens it
\* hands it the files exactly once; when it never opens the call raises the
\* failure of the last click attempt if that attempt failed, and the timeout
\* of the wait otherwise.
C24_UploadRetriesAndSurfaces ==
    (pc = "prim_done" /\ call_args.prim = "upload_files" /\ last_call.clicks # <<>>) =>
        /\ ~last_call.clicks[1].force /\ Len(last_call.clicks) <= 2
        /\ Len(last_call.clicks) = 2 => (last_call.clicks[2].force /\ is_unstable_element_exception(last_call.clicks[1].raised))
        /\ last_call.watch = "opened" => (last_call.ret = NoExc /\ Count(last_call.trace, "set_files") = 1)
        /\ last_call.watch = "timeout" =>
            /\ Count(last_call.trace, "set_files") = 0
            /\ last_call.ret = IF Last(last_call.clicks).raised # NoExc THEN Last(last_call.clicks).raised ELSE ChooserTimeoutExc

\* C25: however the script of a step ends (normally, with an error that is
\* caught, or with one that is not), the removal script has been evaluated
\* in every frame of the tracked page before the page is marked again, and
\* the marking pass finds no overlay of an earlier pass in a frame where the
\* removal script ran without raising.
C25_OverlaysRemovedOnEveryExit ==
    /\ pc \in {"ov_mark", "ov_raised"} => \A f \in DOMAIN page_frames : overlays.tried[f]
    /\ (pc = "ov_exec" /\ overlays.exit # "none") => \A f \in DOMAIN page_frames : overlays.stale[f] => ~overlays.cleared[f]

\* C26: after reset() and after every step, current_url and the URL of the
\* tracked tab are the same once their queries are stripped, also when the
\* initial navigation was redirected and when the step switched to a new tab.
C26_CurrentUrlTracksPage == pc = "nav" => strip_query(current_url) = strip_query(page_url[page])

\* C27: an act() with a step budget of 0, on the module-level entry or on a
\* StatefulAgent, makes no oracle call, runs no step and returns
\* (FAILED, env_state.output); it does not raise.
C27_ZeroBudgetReturnsFailed ==
    (ActEnded /\ max_actions = 0) =>
        /\ oracle_calls = 0 /\ steps = 0
        /\ pc = "returned"
        /\ result = [status |-> FAILED, output |-> env_state.output]

====
